---- MODULE Spec2Model ----
(***************************************************************************)
(* A model of fwd's multiplexer (src/src/lib.rs): the connection table,    *)
(* the stdio synchronisation scan, the handshake of the two endpoint        *)
(* drivers, the reader dispatcher with its detached handler tasks, the      *)
(* writer pump and the client's listener reconciliation.                    *)
(***************************************************************************)
EXTENDS Integers, Sequences, FiniteSets, TLC

\* ------------------------------------------------------------------ bounds

\* Channel ids a peer or a caller may name: 0 .. MaxChan - 1.
MaxChan == 1
\* Calls of alloc and add by the table's direct callers in a run (next_id is a
\* u64 that no run can exhaust; the cap only keeps the state space finite).
MaxQueues == 3
\* Calls of receive by the table's direct callers in a run.
MaxRecv == 1
\* Events from outside an endpoint handles in a run: frames its dispatcher
\* reads and local connections its listeners accept.
MaxEvents == 3
\* Bytes of the transport's stream before it ends, for the synchronisation scan.
MaxStream == 11

\* ------------------------------------------------------- program constants

\* mpsc::channel(32) for a channel's data queue (lib.rs:180, lib.rs:308).
DataCap == 32
\* mpsc::channel(32) for the message queue (lib.rs:256, lib.rs:445).
MsgCap == 32
\* The zero bytes client_sync waits for: while seen < 8 (lib.rs:290).
MarkerLen == 8

Channels == 0 .. (MaxChan - 1)

None == "None"

VARIABLES
    tbl,        \* ConnectionTableState: [next_id, connections]
    queues,     \* the data queues (mpsc channels of Bytes), by queue id
    allocated,  \* the ids alloc has returned, in order
    signalled,  \* the channels whose oneshot notifier received a value, in order
    tasks,      \* the detached tasks (tokio::spawn) that have not finished
    ndata,      \* payloads handed out so far by callers and sockets (a payload is
                \* its sequence number)
    stream,     \* client_sync: the bytes the transport will deliver, then EOF
    pos,        \* client_sync: bytes consumed from the stream
    seen,       \* client_sync: its run counter
    sync,       \* client_sync: "start", "scan", or its result "Ok" / "IO"
    stderr,     \* client_sync: what it wrote to standard error, in order
    role,       \* the endpoint: "client" (client_main) or "server" (server_main)
    main,       \* the driver's position
    ret,        \* the driver's return value ("none" until it returns)
    reading,    \* the dispatcher future: "idle", "run", or its result
    writing,    \* the pump future: "idle", "run", or its result
    done_reading,
    done_writing,
    wire,       \* the frames written to the transport, in order
    nread,      \* frames read from the transport
    message,    \* the frame read last
    messages,   \* the message queue (mpsc channel of Message)
    enqueued,   \* every message a send on the message queue accepted, in order
    listeners,  \* client_read's map from port to the listener's stop sender
    nlisten,    \* listener tasks spawned
    naccept,    \* local connections accepted
    failed,     \* the listener tasks that logged "Error listening on port"
    start       \* events the endpoint had handled in the initial state

tvars == <<tbl, queues, allocated, signalled, tasks, ndata>>
svars == <<stream, pos, seen, sync, stderr>>
dvars == <<role, main, ret, reading, writing, done_reading, done_writing>>
qvars == <<wire, messages, enqueued>>
lvars == <<listeners, nlisten, naccept, failed>>
bvars == <<start>>
evars == <<dvars, qvars, lvars, nread, message>>
vars == <<tvars, svars, evars, bvars>>

\* The detached tasks run until the driver has returned or panicked: the
\* runtime is shut down with it.
Running == main \notin {"returned", "panicked"}

\* ---------------------------------------------------------------- helpers

\* f with key k set to v (HashMap::insert).
Insert(f, k, v) == [x \in DOMAIN f \cup {k} |-> IF x = k THEN v ELSE f[x]]

\* f without key k (HashMap::remove).
Delete(f, k) == [x \in DOMAIN f \ {k} |-> f[x]]

EmptyMap == [x \in {} |-> None]

\* -------------------------------------------------------- connection table

\* ConnectionTable::new
NewTable == [next_id |-> 0, connections |-> EmptyMap]

\* A reuse bug: the smallest id that is not in the table.
alloc_reuse(t, data) ==
    LET id == CHOOSE i \in 0 .. MaxQueues :
                  /\ i \notin DOMAIN t.connections
                  /\ \A j \in 0 .. (i - 1) : j \in DOMAIN t.connections
    IN  [id  |-> id,
         tbl |-> [next_id     |-> id + 1,
                  connections |-> Insert(t.connections, id,
                                         [connected |-> TRUE, data |-> data])]]

\* ConnectionTable::alloc: the id returned and the table after it.
alloc(t, data) ==
    LET id == t.next_id
    IN  [id  |-> id,
         tbl |-> [next_id     |-> t.next_id + 1,
                  connections |-> Insert(t.connections, id,
                                         [connected |-> TRUE, data |-> data])]]

\* ConnectionTable::add
add(t, id, data) ==
    [t EXCEPT !.connections = Insert(t.connections, id,
                                     [connected |-> FALSE, data |-> data])]

\* A connected that signals the notifier and leaves it in the entry.
connected_keep(t, id) ==
    IF id \in DOMAIN t.connections /\ t.connections[id].connected
    THEN [fired |-> TRUE, tbl |-> t]
    ELSE [fired |-> FALSE, tbl |-> t]

\* ConnectionTable::connected: whether a notifier was taken, and the table.
connected(t, id) ==
    IF id \in DOMAIN t.connections /\ t.connections[id].connected
    THEN [fired |-> TRUE,
          tbl   |-> [t EXCEPT !.connections[id].connected = FALSE]]
    ELSE [fired |-> FALSE, tbl |-> t]

\* A lookup that, for an absent id, yields the sender of the first queue made.
receive_lookup_stale(t, id) ==
    IF id \in DOMAIN t.connections THEN {t.connections[id].data} ELSE {1}

\* ConnectionTable::receive, its locked block: the entry's data sender, as an
\* Option (the empty set is None, {q} is Some(q)).
receive_lookup(t, id) ==
    IF id \in DOMAIN t.connections THEN {t.connections[id].data} ELSE {}

\* A remove that, for an absent id, takes out the lowest entry instead.
remove_lowest(t, id) ==
    IF id \in DOMAIN t.connections \/ DOMAIN t.connections = {}
    THEN [t EXCEPT !.connections = Delete(t.connections, id)]
    ELSE LET low == CHOOSE k \in DOMAIN t.connections :
                        \A j \in DOMAIN t.connections : k <= j
         IN  [t EXCEPT !.connections = Delete(t.connections, low)]

\* ConnectionTable::remove
remove(t, id) == [t EXCEPT !.connections = Delete(t.connections, id)]

\* ---------------------------------------------------------- detached tasks

\* A task's locals: the channel, port and payload it was spawned with, its
\* position pc, and the data sender receive cloned (an Option, as a set);
\* had records, for a Data handler, whether the channel had a table entry when
\* the handler was spawned.
Task(id, kind, ch, port, buf) ==
    [id |-> id, kind |-> kind, ch |-> ch, port |-> port, buf |-> buf,
     pc |-> "start", data |-> {}, had |-> FALSE]

\* tokio::spawn of a handler
Spawn(id, kind, ch, port, buf) ==
    tasks' = tasks \cup
        {[Task(id, kind, ch, port, buf)
             EXCEPT !.had = kind = "receive" /\ ch \in DOMAIN tbl.connections]}

\* receive, first half: lock the table and clone the entry's sender; with no
\* entry the payload is dropped and the handler ends.
ReceiveLookup(t) ==
    /\ Running /\ t.kind = "receive" /\ t.pc = "start"
    /\ LET d == receive_lookup(tbl, t.ch)
       IN  tasks' = IF d = {}
                    THEN tasks \ {t}
                    ELSE (tasks \ {t}) \cup {[t EXCEPT !.pc = "send", !.data = d]}
    /\ UNCHANGED <<tbl, queues, allocated, signalled, ndata, svars, bvars, evars>>

\* Whether the receiver of data queue q is alive: it is a local of the
\* connection handler that made the queue.
Open(q) == \E t \in tasks : t.kind \in {"caller", "connect", "conn"} /\ q \in t.data

\* receive, second half: data.send(buf).await completes once the queue has
\* room; with the receiver dropped it is an error, which is ignored.
ReceiveSend(t) ==
    /\ Running /\ t.kind = "receive" /\ t.pc = "send"
    /\ \E q \in t.data :
           IF Open(q)
           THEN /\ Len(queues[q]) < DataCap
                /\ queues' = [queues EXCEPT ![q] = Append(@, t.buf)]
           ELSE UNCHANGED queues
    /\ tasks' = tasks \ {t}
    /\ UNCHANGED <<tbl, allocated, signalled, ndata, svars, bvars, evars>>

\* ------------------------------------------- the table under direct callers

\* mpsc::channel(32): the id of the queue made next.
NewQueue == Len(queues) + 1

\* The caller of alloc or add, which made the data queue and holds its receiver.
Caller(id) ==
    [Task(<<"caller", NewQueue>>, "caller", id, 0, 0) EXCEPT !.data = {NewQueue}]

CallAlloc ==
    /\ Len(queues) < MaxQueues
    /\ LET r == alloc(tbl, NewQueue)
       IN  /\ tbl' = r.tbl
           /\ allocated' = Append(allocated, r.id)
           /\ tasks' = tasks \cup {Caller(r.id)}
    /\ queues' = Append(queues, <<>>)
    /\ UNCHANGED <<signalled, ndata>>

CallAdd(id) ==
    /\ Len(queues) < MaxQueues
    /\ tbl' = add(tbl, id, NewQueue)
    /\ queues' = Append(queues, <<>>)
    /\ tasks' = tasks \cup {Caller(id)}
    /\ UNCHANGED <<allocated, signalled, ndata>>

CallConnected(id) ==
    /\ LET r == connected(tbl, id)
       IN  /\ tbl' = r.tbl
           /\ signalled' = IF r.fired THEN Append(signalled, id) ELSE signalled
    /\ UNCHANGED <<queues, allocated, tasks, ndata>>

CallReceive(id) ==
    /\ ndata < MaxRecv
    /\ ndata' = ndata + 1
    /\ Spawn(<<"call", ndata + 1>>, "receive", id, 0, ndata + 1)
    /\ UNCHANGED <<tbl, queues, allocated, signalled>>

CallRemove(id) ==
    /\ tbl' = remove(tbl, id)
    /\ UNCHANGED <<queues, allocated, signalled, tasks, ndata>>

\* The state of client_sync's reader before the scan starts.
SyncIdle == stream = <<>> /\ pos = 0 /\ seen = 0 /\ sync = "start" /\ stderr = <<>>

\* An endpoint whose driver has not been called.
EndpointIdle ==
    /\ role = "client" /\ main = "idle" /\ ret = "none"
    /\ reading = "idle" /\ writing = "idle"
    /\ done_reading = FALSE /\ done_writing = FALSE
    /\ wire = <<>> /\ nread = 0 /\ message = <<"None">>
    /\ messages = <<>> /\ enqueued = <<>>
    /\ listeners = EmptyMap /\ nlisten = 0 /\ naccept = 0 /\ failed = {}
    /\ start = 0

TableInit ==
    /\ SyncIdle
    /\ EndpointIdle
    /\ tbl = NewTable
    /\ queues = <<>>
    /\ allocated = <<>>
    /\ signalled = <<>>
    /\ tasks = {}
    /\ ndata = 0

TableNext ==
  /\ UNCHANGED <<svars, evars, bvars>>
  /\
    \/ CallAlloc
    \/ \E id \in Channels : CallAdd(id)
    \/ \E id \in Channels : CallConnected(id)
    \/ \E id \in Channels : CallReceive(id)
    \/ \E id \in Channels : CallRemove(id)
    \/ \E t \in tasks : ReceiveLookup(t)
    \/ \E t \in tasks : ReceiveSend(t)

SpecTable == TableInit /\ [][TableNext]_vars

\* ------------------------------------------------------------- client_sync

Bytes == {0, 1}

\* All byte streams of at most n bytes.
RECURSIVE Streams(_)
Streams(n) ==
    IF n = 0 THEN {<<>>}
    ELSE LET shorter == Streams(n - 1)
         IN  shorter \cup {Append(s, b) : s \in {x \in shorter : Len(x) = n - 1},
                                          b \in Bytes}

\* A scan that does not reset its count on a non-zero byte.
seen_noreset(n, byte) == IF byte = 0 THEN n + 1 ELSE n

\* seen = if byte == 0 { seen + 1 } else { 0 }
seen_next(n, byte) == IF byte = 0 THEN n + 1 ELSE 0

\* eprintln!("> Waiting for synchronization marker..."), then the loop.
SyncStart ==
    /\ sync = "start"
    /\ sync' = "scan"
    /\ stderr' = Append(stderr, <<"line", "> Waiting for synchronization marker...">>)
    /\ UNCHANGED <<stream, pos, seen>>

\* One turn of the loop with read_u8 returning a byte; the byte is kept
\* nowhere and nothing is written.
SyncByte ==
    /\ sync = "scan" /\ seen < MarkerLen
    /\ pos < Len(stream)
    /\ pos' = pos + 1
    /\ seen' = seen_next(seen, stream[pos + 1])
    /\ sync' = IF seen' < MarkerLen THEN "scan" ELSE "Ok"
    /\ UNCHANGED <<stream, stderr>>

\* read_u8 fails at the end of the stream: Err(Error::IO(e)).
SyncEof ==
    /\ sync = "scan" /\ seen < MarkerLen
    /\ pos = Len(stream)
    /\ sync' = "IO"
    /\ UNCHANGED <<stream, pos, seen, stderr>>

TableIdle ==
    /\ tbl = NewTable
    /\ queues = <<>>
    /\ allocated = <<>>
    /\ signalled = <<>>
    /\ tasks = {}
    /\ ndata = 0

SyncInit ==
    /\ TableIdle
    /\ EndpointIdle
    /\ stream \in Streams(MaxStream)
    /\ pos = 0 /\ seen = 0 /\ sync = "start" /\ stderr = <<>>

SyncNext == (SyncStart \/ SyncByte \/ SyncEof) /\ UNCHANGED <<tvars, evars, bvars>>

SpecSync == SyncInit /\ [][SyncNext]_vars

\* ----------------------------------------------------------------- messages

\* The ports of the announcements and connects a run draws from.
Ports == {7, 8, 9}

\* The port lists a Ports message or the refresh source carries.
PortLists == {<<>>, <<7>>}

\* The announcements of the runs that exercise the reconciliation: disjoint,
\* overlapping and repeated ports.
ReconcileLists == {<<>>, <<7>>, <<7, 8>>, <<8, 9>>, <<8, 8>>}

\* Message::Hello(0, 1, vec![]) (the extension list, always empty, is left out)
HelloFrame == <<"Hello", 0, 1>>

RefreshFrame == <<"Refresh">>

\* The Hello frames a remote may send first.
Hellos == {<<"Hello", ma, mi>> : ma \in {0, 1}, mi \in {0, 1, 2}}

\* The frames a remote may send; n is the payload of a Data frame.
Frames(n) ==
    {<<"Ping">>, HelloFrame, RefreshFrame}
        \cup {<<"Ports", ps>> : ps \in PortLists}
        \cup {<<"Connect", c, p>> : c \in Channels, p \in {7}}
        \cup {<<"Connected", c>> : c \in Channels}
        \cup {<<"Close", c>> : c \in Channels}
        \cup {<<"Data", c, n>> : c \in Channels}

\* The frames a remote sends that the role's dispatcher has no arm for.
Unexpected(r) ==
    IF r = "server" THEN {HelloFrame, <<"Ports", <<7>>>>, <<"Connected", 0>>}
    ELSE {HelloFrame, RefreshFrame, <<"Connect", 0, 7>>}

\* What reader.read() and writer.write() fail with (enum Error).
ReadErrors == {"MessageIncomplete"}
WriteErrors == {"IO"}

\* The arms of the dispatcher's match other than the panic.
Supported(r) ==
    IF r = "server" THEN {"Ping", "Connect", "Close", "Data", "Refresh"}
    ELSE {"Ping", "Connected", "Close", "Data", "Ports"}

\* ------------------------------------------------------------ the handshake

\* A check that rejects only when both fields are off.
version_rejected_and(major, minor) == major # 0 /\ minor > 1

\* if major != 0 || minor > 1
version_rejected(major, minor) == major # 0 \/ minor > 1

\* client_main's answer to the first message: "Ok" to go on, or the error.
handshake(m) ==
    IF m[1] = "Hello"
    THEN IF version_rejected(m[2], m[3]) THEN "ProtocolVersion" ELSE "Ok"
    ELSE "Protocol"

\* A server that announces another version.
first_frame_other == <<"Hello", 1, 0>>

\* The first message the server sends.
first_frame == HelloFrame

\* server_main: writer.write(Message::Hello(0, 1, vec![])), then the queue, the
\* pump and the dispatcher.
ServerHello ==
    /\ role = "server" /\ main = "hello"
    /\ wire' = Append(wire, first_frame)
    /\ main' = "run" /\ reading' = "run" /\ writing' = "run"
    /\ UNCHANGED <<tvars, svars, bvars, lvars, role, ret, done_reading, done_writing,
                   messages, enqueued, nread, message>>

\* The write of Hello fails: server_main returns the error.
ServerHelloFail(e) ==
    /\ role = "server" /\ main = "hello"
    /\ main' = "returned" /\ ret' = e
    /\ UNCHANGED <<tvars, svars, bvars, lvars, qvars, role, reading, writing,
                   done_reading, done_writing, nread, message>>

\* client_main reads the first message and checks it.
ClientHandshake(m) ==
    /\ role = "client" /\ main = "handshake"
    /\ nread' = nread + 1 /\ message' = m
    /\ LET r == handshake(m)
       IN  /\ main' = IF r = "Ok" THEN "refresh" ELSE "returned"
           /\ ret' = IF r = "Ok" THEN "none" ELSE r
    /\ UNCHANGED <<tvars, svars, bvars, lvars, qvars, role, reading, writing,
                   done_reading, done_writing>>

\* The first read fails: reader.read().await?
ClientHandshakeFail(e) ==
    /\ role = "client" /\ main = "handshake"
    /\ main' = "returned" /\ ret' = e
    /\ UNCHANGED <<tvars, svars, bvars, lvars, qvars, role, reading, writing,
                   done_reading, done_writing, nread, message>>

\* writer.write(Message::Refresh), then the table, the queue, the pump and the
\* dispatcher.
ClientRefresh ==
    /\ role = "client" /\ main = "refresh"
    /\ wire' = Append(wire, RefreshFrame)
    /\ main' = "run" /\ reading' = "run" /\ writing' = "run"
    /\ UNCHANGED <<tvars, svars, bvars, lvars, role, ret, done_reading, done_writing,
                   messages, enqueued, nread, message>>

ClientRefreshFail(e) ==
    /\ role = "client" /\ main = "refresh"
    /\ main' = "returned" /\ ret' = e
    /\ UNCHANGED <<tvars, svars, bvars, lvars, qvars, role, reading, writing,
                   done_reading, done_writing, nread, message>>

\* ------------------------------------------------- the driver's select loop

\* A driver that waits for the other future whatever the result was.
select_wait(result, other_done) ==
    IF other_done THEN [returns |-> TRUE, value |-> result]
    ELSE [returns |-> FALSE, value |-> "none"]

\* One arm of tokio::select! in server_main and client_main, run when a future
\* completes with result: whether the driver returns, and with what.
select_done(result, other_done) ==
    IF result # "Ok" THEN [returns |-> TRUE, value |-> result]
    ELSE IF other_done THEN [returns |-> TRUE, value |-> "Ok"]
    ELSE [returns |-> FALSE, value |-> "none"]

\* ------------------------------------------------------ the reader dispatcher

\* Frames the dispatcher has read (the client's driver read one before it)
\* , local connections accepted and reads of the bridges' sockets, since the
\* initial state.
Events == nread - (IF role = "client" THEN 1 ELSE 0) + naccept + ndata - start

\* A dispatcher that awaits receive inline: it reads the next frame only when
\* no Data handler is unfinished.
CanRead_inline ==
    /\ main = "run" /\ reading = "run"
    /\ Events < MaxEvents
    /\ \A t \in tasks : t.kind # "receive"

\* The dispatcher is at reader.read().await and the transport has a frame.
CanRead ==
    /\ main = "run" /\ reading = "run"
    /\ Events < MaxEvents

\* The id of the handler spawned for the frame being read.
ReadId == <<"read", nread + 1>>

Read(m) == nread' = nread + 1 /\ message' = m

\* reader.read().await? fails: the dispatcher returns the error, and the arm of
\* the driver's select that polled it runs.
ReadFail(e) ==
    /\ main = "run" /\ reading = "run"
    /\ reading' = e /\ done_reading' = TRUE
    /\ LET d == select_done(e, done_writing)
       IN  /\ main' = IF d.returns THEN "returned" ELSE main
           /\ ret' = d.value
    /\ UNCHANGED <<tvars, svars, bvars, lvars, qvars, role, writing, done_writing,
                   nread, message>>

\* Ping => ()
ReadPing ==
    /\ CanRead /\ Read(<<"Ping">>)
    /\ UNCHANGED <<tvars, svars, bvars, lvars, qvars, dvars>>

\* _ => panic!("Unsupported: {:?}", message): the panic unwinds through the
\* driver, which was polling the dispatcher, so the driver returns nothing.
ReadUnsupported(m) ==
    /\ CanRead /\ Read(m)
    /\ m[1] \notin Supported(role)
    /\ reading' = "panic" /\ main' = "panicked"
    /\ UNCHANGED <<tvars, svars, bvars, lvars, qvars, role, ret, writing,
                   done_reading, done_writing>>

\* A frame whose arm spawns a detached handler with the frame's fields.
ReadSpawn(m, kind, ch, port, buf) ==
    /\ CanRead /\ Read(m)
    /\ m[1] \in Supported(role)
    /\ Spawn(ReadId, kind, ch, port, buf)
    /\ UNCHANGED <<tbl, queues, allocated, signalled, ndata>>
    /\ UNCHANGED <<svars, bvars, lvars, qvars, dvars>>

\* Connect(channel, port) => spawn server_handle_connection
ReadConnect(c, p) == ReadSpawn(<<"Connect", c, p>>, "connect", c, p, 0)

\* Close(channel) => spawn connections.remove(channel)
ReadClose(c) == ReadSpawn(<<"Close", c>>, "remove", c, 0, 0)

\* Data(channel, buf) => spawn connections.receive(channel, buf)
ReadData(c) == ReadSpawn(<<"Data", c, nread + 1>>, "receive", c, 0, nread + 1)

\* Refresh => spawn the refresh
ReadRefresh == ReadSpawn(RefreshFrame, "refresh", 0, 0, 0)

\* Connected(channel) => spawn connections.connected(channel)
ReadConnected(c) == ReadSpawn(<<"Connected", c>>, "connected", c, 0, 0)

\* --------------------------------------------------------- the writer pump

\* writer.send(msg).await on the message queue: completes once there is room.
Emit(msg) ==
    /\ Len(messages) < MsgCap
    /\ messages' = Append(messages, msg)
    /\ enqueued' = Append(enqueued, msg)

\* A pump that takes the newest message.
pump_recv_last(q) == [msg |-> q[Len(q)], rest |-> SubSeq(q, 1, Len(q) - 1)]

\* messages.recv().await with a message queued: the message and the queue left.
pump_recv(q) == [msg |-> Head(q), rest |-> Tail(q)]

\* The detached tasks that hold a clone of the message queue's sender.
Writers == {t \in tasks : t.kind \in {"connect", "refresh", "listen", "conn"}}

\* A recv that yields None as soon as the queue is empty.
recv_none_empty(q, dispatching, writers) == q = <<>>

\* messages.recv().await yields None: the queue is empty and every sender is
\* dropped, the dispatcher's and the clones the tasks hold.
recv_none(q, dispatching, writers) == q = <<>> /\ ~dispatching /\ writers = {}

\* pump_write: one turn of the loop.  With a message queued it is written;
\* when recv() yields None the pump returns Ok and the arm of the driver's
\* select that polled it runs.
PumpWrite ==
    /\ main = "run" /\ writing = "run"
    /\ IF messages # <<>>
       THEN /\ LET r == pump_recv(messages)
               IN  /\ wire' = Append(wire, r.msg)
                   /\ messages' = r.rest
            /\ UNCHANGED dvars
       ELSE /\ recv_none(messages, reading = "run", Writers)
            /\ writing' = "Ok" /\ done_writing' = TRUE
            /\ LET d == select_done("Ok", done_reading)
               IN  /\ main' = IF d.returns THEN "returned" ELSE main
                   /\ ret' = d.value
            /\ UNCHANGED <<role, reading, done_reading, wire, messages>>
    /\ UNCHANGED <<tvars, svars, bvars, lvars, enqueued, nread, message>>

\* pump_write: writer.write(msg).await? fails: the pump returns the error and
\* the arm of the driver's select that polled it runs.
PumpWriteFail(e) ==
    /\ main = "run" /\ writing = "run"
    /\ messages # <<>>
    /\ messages' = pump_recv(messages).rest
    /\ writing' = e /\ done_writing' = TRUE
    /\ LET d == select_done(e, done_reading)
       IN  /\ main' = IF d.returns THEN "returned" ELSE main
           /\ ret' = d.value
    /\ UNCHANGED <<tvars, svars, bvars, lvars, role, reading, done_reading, wire,
                   enqueued, nread, message>>

\* ------------------------------------------------------ the detached handlers

Finish(t) == tasks' = tasks \ {t}

Goto(t, pc) == tasks' = (tasks \ {t}) \cup {[t EXCEPT !.pc = pc]}

\* The Close handler: connections.remove(channel).
TaskRemove(t) ==
    /\ Running /\ t.kind = "remove"
    /\ tbl' = remove(tbl, t.ch)
    /\ Finish(t)
    /\ UNCHANGED <<queues, allocated, signalled, ndata, svars, bvars, evars>>

\* The Connected handler: connections.connected(channel).
TaskConnected(t) ==
    /\ Running /\ t.kind = "connected"
    /\ LET r == connected(tbl, t.ch)
       IN  /\ tbl' = r.tbl
           /\ signalled' = IF r.fired THEN Append(signalled, t.ch) ELSE signalled
    /\ Finish(t)
    /\ UNCHANGED <<queues, allocated, ndata, svars, bvars, evars>>

\* server_handle_connection: the dial succeeds; the data queue is made and the
\* entry added.
ConnectDial(t) ==
    /\ Running /\ t.kind = "connect" /\ t.pc = "start"
    /\ tbl' = add(tbl, t.ch, NewQueue)
    /\ queues' = Append(queues, <<>>)
    /\ tasks' = (tasks \ {t}) \cup {[t EXCEPT !.pc = "send", !.data = {NewQueue}]}
    /\ UNCHANGED <<allocated, signalled, ndata, svars, bvars, evars>>

\* A handler that answers a failed dial with Close.
ConnectDialFail_close(t) ==
    /\ Running /\ t.kind = "connect" /\ t.pc = "start"
    /\ Emit(<<"Close", t.ch>>)
    /\ Finish(t)
    /\ UNCHANGED <<tbl, queues, allocated, signalled, ndata>>
    /\ UNCHANGED <<svars, bvars, dvars, lvars, wire, nread, message>>

\* server_handle_connection: the dial fails and the handler ends.
ConnectDialFail(t) ==
    /\ Running /\ t.kind = "connect" /\ t.pc = "start"
    /\ Finish(t)
    /\ UNCHANGED <<tbl, queues, allocated, signalled, ndata, svars, bvars, evars>>

\* server_handle_connection: writer.send(Message::Connected(channel)), then the
\* bridge.
ConnectSend(t) ==
    /\ Running /\ t.kind = "connect" /\ t.pc = "send"
    /\ Emit(<<"Connected", t.ch>>)
    /\ Goto(t, "bridge")
    /\ UNCHANGED <<tbl, queues, allocated, signalled, ndata>>
    /\ UNCHANGED <<svars, bvars, dvars, lvars, wire, nread, message>>

\* The Refresh handler: the entries of the refresh source (none when it
\* fails), sent as Ports.
RefreshSend(t, ps) ==
    /\ Running /\ t.kind = "refresh"
    /\ Emit(<<"Ports", ps>>)
    /\ Finish(t)
    /\ UNCHANGED <<tbl, queues, allocated, signalled, ndata>>
    /\ UNCHANGED <<svars, bvars, dvars, lvars, wire, nread, message>>

\* ------------------------------------------------------ the client's listeners

Range(f) == {f[x] : x \in DOMAIN f}

\* The stop senders whose receiver is alive: !l.is_closed().  The receiver is
\* owned by the listener task and dropped when the task ends.
Live == {t.id : t \in {x \in tasks : x.kind = "listen"}}

\* A loop body that spawns a listener for every announced port.
ports_step_respawn(st, port, live) ==
    LET id == <<"listen", st.n + 1>>
    IN  [old     |-> Delete(st.old, port),
         new     |-> Insert(st.new, port, id),
         spawned |-> st.spawned \cup {Task(id, "listen", 0, port, 0)},
         n       |-> st.n + 1]

\* A loop body that registers a stop sender for a port without a live listener
\* but spawns no task for it.
ports_step_nospawn(st, port, live) ==
    LET kept == port \in DOMAIN st.old /\ st.old[port] \in live
        id   == <<"listen", st.n + 1>>
    IN  [old     |-> Delete(st.old, port),
         new     |-> IF kept THEN Insert(st.new, port, st.old[port])
                     ELSE IF port \in DOMAIN st.new THEN st.new
                     ELSE Insert(st.new, port, id),
         spawned |-> st.spawned,
         n       |-> IF kept \/ port \in DOMAIN st.new THEN st.n ELSE st.n + 1]

\* The body of `for port in ports`: st holds listeners (old), new_listeners
\* (new), the tasks spawned and the count of listener tasks.
ports_step(st, port, live) ==
    LET kept  == port \in DOMAIN st.old /\ st.old[port] \in live
        new1  == IF kept THEN Insert(st.new, port, st.old[port]) ELSE st.new
        spawn == port \notin DOMAIN new1
        id    == <<"listen", st.n + 1>>
    IN  [old     |-> Delete(st.old, port),
         new     |-> IF spawn THEN Insert(new1, port, id) ELSE new1,
         spawned |-> IF spawn
                     THEN st.spawned \cup {Task(id, "listen", 0, port, 0)}
                     ELSE st.spawned,
         n       |-> IF spawn THEN st.n + 1 ELSE st.n]

RECURSIVE ports_loop(_, _, _, _)
ports_loop(st, ports, i, live) ==
    IF i > Len(ports) THEN st
    ELSE ports_loop(ports_step(st, ports[i], live), ports, i + 1, live)

\* Ports(ports) => the reconciliation; listeners = new_listeners drops the
\* stop senders left in the old map.
ReadPorts(ps) ==
    /\ CanRead /\ Read(<<"Ports", ps>>)
    /\ role = "client"
    /\ LET st == ports_loop([old |-> listeners, new |-> EmptyMap,
                             spawned |-> {}, n |-> nlisten], ps, 1, Live)
       IN  /\ listeners' = st.new
           /\ nlisten' = st.n
           /\ tasks' = tasks \cup st.spawned
    /\ UNCHANGED <<tbl, queues, allocated, signalled, ndata>>
    /\ UNCHANGED <<svars, bvars, qvars, dvars, naccept, failed>>

\* Whether another listener task of this client holds the port bound.
Bound(port) == \E t \in tasks : t.kind = "listen" /\ t.port = port /\ t.pc = "accept"

\* client_listen: TcpListener::bind succeeds.
ListenBind(t) ==
    /\ Running /\ t.kind = "listen" /\ t.pc = "start"
    /\ ~Bound(t.port)
    /\ Goto(t, "accept")
    /\ UNCHANGED <<tbl, queues, allocated, signalled, ndata, svars, bvars, evars>>

\* client_listen: bind or accept fails; the task logs the error and ends.
ListenFail(t) ==
    /\ Running /\ t.kind = "listen"
    /\ Finish(t)
    /\ failed' = failed \cup {t.id}
    /\ UNCHANGED <<tbl, queues, allocated, signalled, ndata, svars, bvars>>
    /\ UNCHANGED <<dvars, qvars, listeners, nlisten, naccept, nread, message>>

\* client_listen: accept returns a socket; client_handle_connection is spawned.
ListenAccept(t) ==
    /\ Running /\ t.kind = "listen" /\ t.pc = "accept"
    /\ Events < MaxEvents
    /\ naccept' = naccept + 1
    /\ Spawn(<<"conn", naccept + 1>>, "conn", 0, t.port, 0)
    /\ UNCHANGED <<tbl, queues, allocated, signalled, ndata>>
    /\ UNCHANGED <<svars, bvars, qvars, dvars, listeners, nlisten, failed, nread, message>>

\* The select in the listener task: the stop sender was dropped.
ListenStop(t) ==
    /\ Running /\ t.kind = "listen"
    /\ t.id \notin Range(listeners)
    /\ Finish(t)
    /\ UNCHANGED <<tbl, queues, allocated, signalled, ndata, svars, bvars, evars>>

\* client_handle_connection: the notifier and the data queue are made and the
\* channel allocated.
ConnAlloc(t) ==
    /\ Running /\ t.kind = "conn" /\ t.pc = "start"
    /\ LET r == alloc(tbl, NewQueue)
       IN  /\ tbl' = r.tbl
           /\ allocated' = Append(allocated, r.id)
           /\ tasks' = (tasks \ {t}) \cup
                       {[t EXCEPT !.pc = "send", !.ch = r.id, !.data = {NewQueue}]}
    /\ queues' = Append(queues, <<>>)
    /\ UNCHANGED <<signalled, ndata, svars, bvars, evars>>

\* client_handle_connection: writer.send(Message::Connect(channel, port)).
ConnSend(t) ==
    /\ Running /\ t.kind = "conn" /\ t.pc = "send"
    /\ Emit(<<"Connect", t.ch, t.port>>)
    /\ Goto(t, "wait")
    /\ UNCHANGED <<tbl, queues, allocated, signalled, ndata>>
    /\ UNCHANGED <<svars, bvars, dvars, lvars, wire, nread, message>>

\* A handler that takes the notifier as signalled once the channel has an
\* entry.
Signalled_entry(c) == c \in DOMAIN tbl.connections

\* Whether channel c's notifier received its value.
Signalled(c) == \E i \in 1 .. Len(signalled) : signalled[i] = c

\* client_handle_connection: connected.await is Ok; the bridge starts.
ConnReady(t) ==
    /\ Running /\ t.kind = "conn" /\ t.pc = "wait"
    /\ Signalled(t.ch)
    /\ Goto(t, "bridge")
    /\ UNCHANGED <<tbl, queues, allocated, signalled, ndata, svars, bvars, evars>>

\* client_handle_connection: the notifier was dropped with the entry, unsent;
\* connected.await is an error and the handler ends.
ConnFailed(t) ==
    /\ Running /\ t.kind = "conn" /\ t.pc = "wait"
    /\ ~Signalled(t.ch) /\ t.ch \notin DOMAIN tbl.connections
    /\ Finish(t)
    /\ UNCHANGED <<tbl, queues, allocated, signalled, ndata, svars, bvars, evars>>

\* --------------------------------------------------------- the channel bridge

\* Whether a sender of data queue q is alive: the table entry holds one and a
\* receive handler holds the clone it made.
Senders(q) ==
    \/ \E c \in DOMAIN tbl.connections : tbl.connections[c].data = q
    \/ \E t \in tasks : t.kind = "receive" /\ q \in t.data

\* The handler is in connection::process.
InBridge(t) == t.kind \in {"connect", "conn"} /\ t.pc = "bridge"

\* socket -> wire: a non-empty read of the socket is enqueued as Data.
BridgeRead(t) ==
    /\ Running /\ InBridge(t)
    /\ Events < MaxEvents
    /\ ndata' = ndata + 1
    /\ Emit(<<"Data", t.ch, ndata + 1>>)
    /\ UNCHANGED <<tbl, queues, allocated, signalled, tasks>>
    /\ UNCHANGED <<svars, bvars, dvars, lvars, wire, nread, message>>

\* socket -> wire: EOF or a read error; Close is enqueued, the direction
\* completes and with it the bridge and the handler.
BridgeEof(t) ==
    /\ Running /\ InBridge(t)
    /\ Emit(<<"Close", t.ch>>)
    /\ Finish(t)
    /\ UNCHANGED <<tbl, queues, allocated, signalled, ndata>>
    /\ UNCHANGED <<svars, bvars, dvars, lvars, wire, nread, message>>

\* wire -> socket: the payload at the head of the data queue is written to
\* the socket.
BridgeDeliver(t) ==
    /\ Running /\ InBridge(t)
    /\ \E q \in t.data :
           /\ queues[q] # <<>>
           /\ queues' = [queues EXCEPT ![q] = Tail(@)]
    /\ UNCHANGED <<tbl, allocated, signalled, tasks, ndata, svars, bvars, evars>>

\* wire -> socket: the data queue is closed (empty, every sender dropped); the
\* socket's write side is shut, the direction completes and with it the
\* bridge and the handler.
BridgeClosed(t) ==
    /\ Running /\ InBridge(t)
    /\ \E q \in t.data : queues[q] = <<>> /\ ~Senders(q)
    /\ Finish(t)
    /\ UNCHANGED <<tbl, queues, allocated, signalled, ndata, svars, bvars, evars>>

\* ------------------------------------------------------------ the endpoint

Init ==
    /\ TableIdle
    /\ SyncIdle
    /\ role \in {"client", "server"}
    /\ main = IF role = "server" THEN "hello" ELSE "handshake"
    /\ ret = "none"
    /\ reading = "idle" /\ writing = "idle"
    /\ done_reading = FALSE /\ done_writing = FALSE
    /\ wire = <<>> /\ nread = 0 /\ message = <<"None">>
    /\ messages = <<>> /\ enqueued = <<>>
    /\ listeners = EmptyMap /\ nlisten = 0 /\ naccept = 0 /\ failed = {}
    /\ start = 0

DriverNext ==
    \/ ServerHello
    \/ \E e \in WriteErrors : ServerHelloFail(e)
    \/ \E m \in Hellos \cup Frames(1) : ClientHandshake(m)
    \/ \E e \in ReadErrors : ClientHandshakeFail(e)
    \/ ClientRefresh
    \/ \E e \in WriteErrors : ClientRefreshFail(e)

ReadNext ==
    \/ \E e \in ReadErrors : ReadFail(e)
    \/ ReadPing
    \/ \E m \in Unexpected(role) : ReadUnsupported(m)
    \/ \E c \in Channels, p \in {7} : ReadConnect(c, p)
    \/ \E c \in Channels : ReadClose(c)
    \/ \E c \in Channels : ReadData(c)
    \/ ReadRefresh
    \/ \E c \in Channels : ReadConnected(c)
    \/ \E ps \in PortLists : ReadPorts(ps)

PumpNext ==
    \/ PumpWrite
    \/ \E e \in WriteErrors : PumpWriteFail(e)

TaskNext ==
    \/ \E t \in tasks : TaskRemove(t)
    \/ \E t \in tasks : TaskConnected(t)
    \/ \E t \in tasks : ReceiveLookup(t)
    \/ \E t \in tasks : ReceiveSend(t)
    \/ \E t \in tasks : ConnectDial(t)
    \/ \E t \in tasks : ConnectDialFail(t)
    \/ \E t \in tasks : ConnectSend(t)
    \/ \E t \in tasks, ps \in PortLists : RefreshSend(t, ps)

ListenNext ==
    \/ \E t \in tasks : ListenBind(t)
    \/ \E t \in tasks : ListenFail(t)
    \/ \E t \in tasks : ListenAccept(t)
    \/ \E t \in tasks : ListenStop(t)
    \/ \E t \in tasks : ConnAlloc(t)
    \/ \E t \in tasks : ConnSend(t)
    \/ \E t \in tasks : ConnReady(t)
    \/ \E t \in tasks : ConnFailed(t)

Next == DriverNext \/ ReadNext \/ PumpNext \/ TaskNext \/ ListenNext

Spec == Init /\ [][Next]_vars

\* -------------------------------------------- the client's reconciliation

\* A client after the handshake: Hello read, Refresh written, the dispatcher
\* and the pump started.
ListenInit ==
    /\ TableIdle
    /\ SyncIdle
    /\ role = "client" /\ main = "run" /\ ret = "none"
    /\ reading = "run" /\ writing = "run"
    /\ done_reading = FALSE /\ done_writing = FALSE
    /\ wire = <<RefreshFrame>> /\ nread = 1 /\ message = HelloFrame
    /\ messages = <<>> /\ enqueued = <<>>
    /\ listeners = EmptyMap /\ nlisten = 0 /\ naccept = 0 /\ failed = {}
    /\ start = 0

ListenOnlyNext ==
    \/ \E ps \in ReconcileLists : ReadPorts(ps)
    \/ \E t \in tasks : ListenBind(t)
    \/ \E t \in tasks : ListenFail(t)
    \/ \E t \in tasks : ListenAccept(t)
    \/ \E t \in tasks : ListenStop(t)
    \/ \E t \in tasks : ConnAlloc(t)
    \/ \E t \in tasks : ConnSend(t)
    \/ PumpWrite

SpecListen == ListenInit /\ [][ListenOnlyNext]_vars

\* ------------------------------------------------- the life of the channels

\* The port the fresh client listens on and peers connect to.
ThePort == 7

\* A server after its Hello, nothing read yet.
FreshServer ==
    /\ TableIdle
    /\ role = "server"
    /\ wire = <<HelloFrame>> /\ nread = 0 /\ message = <<"None">>
    /\ enqueued = <<>>
    /\ listeners = EmptyMap /\ nlisten = 0
    /\ start = 0

\* A client after the handshake that has read Ports [7], its listener bound.
FreshClient ==
    /\ tbl = NewTable /\ queues = <<>> /\ allocated = <<>> /\ signalled = <<>>
    /\ ndata = 0
    /\ tasks = {[Task(<<"listen", 1>>, "listen", 0, ThePort, 0) EXCEPT !.pc = "accept"]}
    /\ role = "client"
    /\ wire = <<RefreshFrame>> /\ nread = 2 /\ message = <<"Ports", <<ThePort>>>>
    /\ enqueued = <<>>
    /\ listeners = [x \in {ThePort} |-> <<"listen", 1>>] /\ nlisten = 1
    /\ start = 1

\* A server that read Connect(0, 7), dialled, sent Connected(0) and then read
\* DataCap Data(0) frames whose payloads its bridge has not consumed: the
\* data queue of channel 0 is full.
FullServer ==
    /\ SyncIdle
    /\ main = "run" /\ ret = "none"
    /\ reading = "run" /\ writing = "run"
    /\ done_reading = FALSE /\ done_writing = FALSE
    /\ messages = <<>> /\ naccept = 0 /\ failed = {}
    /\ tbl = add(NewTable, 0, 1)
    /\ queues = <<[i \in 1 .. DataCap |-> i + 1]>>
    /\ allocated = <<>> /\ signalled = <<>> /\ ndata = 0
    /\ tasks = {[Task(<<"read", 1>>, "connect", 0, ThePort, 0)
                     EXCEPT !.pc = "bridge", !.data = {1}]}
    /\ role = "server"
    /\ wire = <<HelloFrame, <<"Connected", 0>>>>
    /\ nread = DataCap + 1 /\ message = <<"Data", 0, DataCap + 1>>
    /\ enqueued = <<<<"Connected", 0>>>>
    /\ listeners = EmptyMap /\ nlisten = 0
    /\ start = DataCap + 1

BridgeInit ==
    /\ SyncIdle
    /\ main = "run" /\ ret = "none"
    /\ reading = "run" /\ writing = "run"
    /\ done_reading = FALSE /\ done_writing = FALSE
    /\ messages = <<>> /\ naccept = 0 /\ failed = {}
    /\ (FreshServer \/ FreshClient)

\* The channel the peer's frames name in the runs that follow channels through
\* their life; the client's own allocations give further ids.
PeerChannels == {0}

BridgeNext ==
    \/ \E c \in PeerChannels : ReadConnect(c, ThePort)
    \/ \E c \in PeerChannels : ReadConnected(c)
    \/ \E c \in PeerChannels : ReadClose(c)
    \/ \E c \in PeerChannels : ReadData(c)
    \/ PumpWrite
    \/ \E t \in tasks : TaskRemove(t)
    \/ \E t \in tasks : TaskConnected(t)
    \/ \E t \in tasks : ReceiveLookup(t)
    \/ \E t \in tasks : ReceiveSend(t)
    \/ \E t \in tasks : ConnectDial(t)
    \/ \E t \in tasks : ConnectDialFail(t)
    \/ \E t \in tasks : ConnectSend(t)
    \/ \E t \in tasks : ListenAccept(t)
    \/ \E t \in tasks : ConnAlloc(t)
    \/ \E t \in tasks : ConnSend(t)
    \/ \E t \in tasks : ConnReady(t)
    \/ \E t \in tasks : ConnFailed(t)
    \/ \E t \in tasks : BridgeRead(t)
    \/ \E t \in tasks : BridgeEof(t)
    \/ \E t \in tasks : BridgeDeliver(t)
    \/ \E t \in tasks : BridgeClosed(t)

SpecBridge == BridgeInit /\ [][BridgeNext]_vars

\* ------------------------------------------------------- a full data queue

\* The channels the peer's frames name while channel 0's queue is full:
\* channel 0 and another one.  The bridges' sockets are idle in these runs:
\* nothing is read from them and they accept no write, so no bridge consumes.
FullChannels == {0, 1}

FullNext ==
    \/ \E c \in FullChannels : ReadData(c)
    \/ \E c \in FullChannels : ReadClose(c)
    \/ ReadConnect(1, ThePort)
    \/ \E t \in tasks : ReceiveLookup(t)
    \/ \E t \in tasks : ReceiveSend(t)
    \/ \E t \in tasks : TaskRemove(t)
    \/ \E t \in tasks : ConnectDial(t)
    \/ \E t \in tasks : ConnectDialFail(t)
    \/ \E t \in tasks : ConnectSend(t)
    \/ PumpWrite

SpecFull == FullServer /\ [][FullNext]_vars

\* ------------------------------------------------------------------ claims

\* C1: every id alloc returns differs from every id an earlier alloc returned
\* (also after that id was removed), the ids are returned in strictly
\* increasing order, and next_id is strictly greater than every id returned.
C1_AllocMonotonic ==
    /\ \A i, j \in 1 .. Len(allocated) : i < j => allocated[i] < allocated[j]
    /\ \A i \in 1 .. Len(allocated) : allocated[i] < tbl.next_id

\* Two allocs and an add, the first id alloc returned no longer in the table
\* and the second still there.
C1_Witness ==
    /\ Len(allocated) >= 2
    /\ allocated[1] \notin DOMAIN tbl.connections
    /\ allocated[2] \in DOMAIN tbl.connections
    /\ Len(queues) > Len(allocated)

\* Whether sequence a is a prefix of sequence b.
IsPrefix(a, b) == Len(a) <= Len(b) /\ SubSeq(b, 1, Len(a)) = a

\* The frames on the transport after the one the handshake wrote.
Pumped == SubSeq(wire, 2, Len(wire))

\* Frames the dispatcher itself has read.
DispatcherReads == nread - (IF role = "client" THEN 1 ELSE 0)

\* C2: payloads of one channel are placed on its data queue in the order the
\* dispatcher read their Data frames, each once (a payload is the number of the
\* read that carried it, so read order is numeric order).
C2_DataInReadOrder ==
    \A q \in 1 .. Len(queues) :
        \A i, j \in 1 .. Len(queues[q]) : i < j => queues[q][i] < queues[q][j]

\* C3: after the handshake only the pump writes to the transport, and the
\* frames written are the messages enqueued, in the order they were enqueued:
\* while the pump runs, the frames written followed by the queue's content are
\* exactly what was enqueued; once it has stopped, the frames written are a
\* prefix of it.
C3_PumpKeepsEnqueueOrder ==
    IF writing \in {"idle", "run"}
    THEN Pumped \o messages = enqueued
    ELSE IsPrefix(Pumped, enqueued)

\* A server that read Refresh and then Connect, whose handlers enqueued
\* Connected before Ports, both written by the pump in that order.
C3_Witness ==
    /\ role = "server" /\ nread = 2 /\ message[1] = "Connect"
    /\ Len(wire) = 3
    /\ wire[2][1] = "Connected" /\ wire[3][1] = "Ports"

\* C4: client_main rejects with ProtocolVersion exactly when the first message
\* is a Hello with major # 0 or minor > 1, and with Protocol when it is not a
\* Hello; in both cases nothing was written and neither the dispatcher nor the
\* pump was started. After Hello(0, 0) or Hello(0, 1) it goes on to write
\* Refresh.
C4_HandshakeRejects ==
    /\ ret \in {"ProtocolVersion", "Protocol"} =>
           /\ role = "client" /\ main = "returned"
           /\ wire = <<>> /\ enqueued = <<>>
           /\ reading = "idle" /\ writing = "idle"
    /\ (role = "client" /\ main # "handshake" /\ reading = "idle" /\ nread = 1) =>
           /\ ret = "ProtocolVersion" <=>
                  (message[1] = "Hello" /\ (message[2] # 0 \/ message[3] > 1))
           /\ ret = "Protocol" <=> message[1] # "Hello"
           /\ message \in {<<"Hello", 0, 0>>, <<"Hello", 0, 1>>} =>
                  \/ main = "refresh"
                  \/ main = "returned" /\ ret \in WriteErrors
    /\ (role = "client" /\ reading # "idle") => wire[1] = RefreshFrame

\* The remote announced version 0.2: rejected with ProtocolVersion.
C4_Witness ==
    /\ role = "client" /\ ret = "ProtocolVersion"
    /\ message = <<"Hello", 0, 2>>

\* C5: the server's first frame is Hello(0, 1, []), written before it reads a
\* frame and before any message is enqueued for the pump; the client writes
\* nothing before it has read the server's Hello, and its first frame is
\* Refresh.
C5_HelloFirst ==
    /\ wire = <<>> =>
           /\ enqueued = <<>> /\ reading = "idle" /\ writing = "idle"
           /\ role = "server" => nread = 0
    /\ (role = "server" /\ wire # <<>>) => wire[1] = <<"Hello", 0, 1>>
    /\ (role = "client" /\ wire # <<>>) =>
           /\ wire[1] = <<"Refresh">>
           /\ nread >= 1
           /\ main \notin {"handshake", "refresh"}
    /\ (role = "client" /\ main = "refresh") =>
           /\ message[1] = "Hello" /\ nread = 1 /\ wire = <<>>

\* A server whose pump has written a frame after Hello, the dispatcher having
\* read.
C5_Witness ==
    /\ role = "server" /\ nread >= 1
    /\ Len(wire) >= 2

\* C6: when the dispatcher reads a message kind its role has no arm for, it
\* returns the error Protocol and the driver returns that error.
C6_ProtocolErrorReturned ==
    (reading # "idle" /\ DispatcherReads >= 1 /\ message[1] \notin Supported(role)) =>
        /\ main = "returned"
        /\ reading = "Protocol" /\ ret = "Protocol"

\* C7, as claimed: the driver returns from its select loop only when both the
\* dispatcher and the pump have completed.
C7_WaitsForTheOther ==
    (main = "returned" /\ reading # "idle") =>
        /\ reading # "run" /\ writing # "run"

\* C7, amended: when the dispatcher or the pump completes with an error the
\* driver returns that error at once, the other one still running; the value
\* returned is the first error, and Ok only if both completed without error.
C7_ReturnsFirstError ==
    /\ reading \in ReadErrors =>
           /\ main = "returned" /\ ret = reading
           /\ done_reading /\ ~done_writing /\ writing = "run"
    /\ writing \in WriteErrors =>
           /\ main = "returned" /\ ret = writing
           /\ done_writing /\ ~done_reading /\ reading = "run"
    /\ (main = "returned" /\ reading # "idle") =>
           \/ ret = reading /\ ret \in ReadErrors
           \/ ret = writing /\ ret \in WriteErrors
    /\ ret = "Ok" => reading = "Ok" /\ writing = "Ok"

\* The dispatcher failed while the pump still had a message to write.
C7_Witness ==
    /\ main = "returned" /\ reading \in ReadErrors
    /\ writing = "run" /\ messages # <<>>

\* The ports of a list.
PortSet(ps) == {ps[i] : i \in 1 .. Len(ps)}

ListenTasks == {t \in tasks : t.kind = "listen"}

\* What the reconciliation of one Ports message, from the unprimed state to
\* the primed one, has to do for port p of the message.
ReconciledPort(p) ==
    LET new == {t \in ListenTasks' \ ListenTasks : t.port = p}
    IN  IF p \in DOMAIN listeners /\ listeners[p] \in Live
        THEN listeners'[p] = listeners[p] /\ new = {}
        ELSE /\ Cardinality(new) = 1
             /\ \A t \in new : t.id = listeners'[p] /\ t.pc = "start"

\* C8: after a Ports message is processed the listener map holds exactly the
\* ports of that message; a port whose listener's stop signal was live keeps
\* that listener and gets no second task, any other port of the message gets
\* one newly spawned task; every port of the map has exactly one task holding
\* its stop receiver, and every task for a port outside the message has had
\* its stop sender dropped.
C8_Reconciliation ==
    [][(nread' = nread + 1 /\ message'[1] = "Ports") =>
          /\ DOMAIN listeners' = PortSet(message'[2])
          /\ \A p \in PortSet(message'[2]) : ReconciledPort(p)
          /\ \A p \in DOMAIN listeners' :
                 Cardinality({t \in ListenTasks' : t.id = listeners'[p]}) = 1
          /\ \A p, q \in DOMAIN listeners' :
                 listeners'[p] = listeners'[q] => p = q
          /\ \A t \in ListenTasks' :
                 t.id \in Range(listeners') <=> t.port \in PortSet(message'[2])
                                                /\ listeners'[t.port] = t.id
      ]_vars

\* Ports [7, 8] then [8, 9]: the map holds 8 and 9, the listener on 8 is the
\* one the first message spawned, and the listener on 7, its stop sender
\* dropped, has not yet ended.
C8_Witness ==
    /\ message = <<"Ports", <<8, 9>>>>
    /\ DOMAIN listeners = {8, 9}
    /\ listeners[8] = <<"listen", 2>> /\ listeners[9] = <<"listen", 3>>
    /\ \E t \in ListenTasks : t.port = 7 /\ t.id = <<"listen", 1>>

\* C9, as claimed: a port is a key of the listener map if and only if a
\* listener task for it is accepting connections or about to.
C9_MapIffListening ==
    \A p \in Ports : p \in DOMAIN listeners <=> \E t \in ListenTasks : t.port = p

\* C9, amended: every key of the map holds the stop sender of a listener task
\* for that port that is running (accepting or about to) or has ended because
\* its bind or accept failed; and every running listener task whose stop sender
\* has not been dropped is the one the map holds for its port.
C9_MapCoversLiveListeners ==
    /\ \A p \in DOMAIN listeners :
           \/ \E t \in ListenTasks : t.id = listeners[p] /\ t.port = p
           \/ listeners[p] \in failed
    /\ \A t \in ListenTasks :
           t.id \in Range(listeners) =>
               t.port \in DOMAIN listeners /\ listeners[t.port] = t.id

\* Port 7 is in the map with a failed listener while the listener of a port
\* dropped from the map is still accepting.
C9_Witness ==
    /\ 7 \in DOMAIN listeners /\ listeners[7] \in failed
    /\ \E t \in ListenTasks : t.port \notin DOMAIN listeners /\ t.pc = "accept"

\* Whether the n bytes of s that end at index i are all zero.
ZeroRun(s, i, n) == i >= n /\ i <= Len(s) /\ \A k \in (i - n + 1) .. i : s[k] = 0

\* The indexes at which a run of MarkerLen zero bytes of s is complete.
MarkerEnds(s) == {i \in 1 .. Len(s) : ZeroRun(s, i, MarkerLen)}

\* C10: client_sync returns Ok right after the byte that completes the first
\* run of eight consecutive zero bytes and consumes nothing after it; when the
\* stream ends before such a run it returns an IO error; until then it scans.
C10_SyncStopsAtMarker ==
    /\ sync = "Ok" => /\ pos \in MarkerEnds(stream)
                      /\ \A i \in MarkerEnds(stream) : pos <= i
    /\ sync = "IO" => MarkerEnds(stream) = {} /\ pos = Len(stream)
    /\ sync = "scan" => \A i \in MarkerEnds(stream) : pos < i

\* Accepted after a zero, a non-zero byte that resets the count, and the marker,
\* with a byte of the Hello frame left unread.
C10_Witness ==
    /\ sync = "Ok"
    /\ stream[1] = 0 /\ stream[2] # 0
    /\ pos = MarkerLen + 2
    /\ Len(stream) > pos

\* The bytes among the entries of a diagnostic output.
EchoedBytes(out) ==
    LET bytes == SelectSeq(out, LAMBDA e : e[1] = "byte")
    IN  [i \in 1 .. Len(bytes) |-> bytes[i][2]]

\* The non-zero bytes among the first n of s, in order.
NonZero(s, n) == SelectSeq(SubSeq(s, 1, n), LAMBDA b : b # 0)

\* C11: when banner bytes precede the marker the scan still succeeds, and the
\* non-zero bytes it consumed were written, in order, to standard error.
C11_BannerEchoed ==
    sync = "Ok" => EchoedBytes(stderr) = NonZero(stream, pos)

\* The ids a table operation may be called with: those alloc can have returned
\* and one more.
Ids == 0 .. MaxQueues

\* C12: remove(id) twice leaves the table that remove(id) once leaves (entry
\* map and next_id), and remove changes neither next_id nor any entry other
\* than id's; for every reachable table and every id, in the table or not.
C12_RemoveIdempotent ==
    \A id \in Ids :
        LET once  == remove(tbl, id)
            twice == remove(once, id)
        IN  /\ twice = once
            /\ once.next_id = tbl.next_id
            /\ DOMAIN once.connections = DOMAIN tbl.connections \ {id}
            /\ \A k \in DOMAIN once.connections :
                   once.connections[k] = tbl.connections[k]

\* The first id alloc returned was removed and two other entries are left, so
\* another remove of it is a remove of an absent id.
C12_Witness ==
    /\ allocated # <<>>
    /\ allocated[1] \notin DOMAIN tbl.connections
    /\ Cardinality(DOMAIN tbl.connections) = 2

\* Whether the entry of id holds a notifier.
HasNotifier(t, id) == id \in DOMAIN t.connections /\ t.connections[id].connected

\* C13: no channel's notifier is signalled twice; connected(id) on an entry
\* that holds a notifier takes and signals it, after which connected(id)
\* signals nothing; connected on an absent id or on an entry without a
\* notifier (a server-side entry, or one already signalled) signals nothing and
\* leaves the table unchanged.
C13_SignalledAtMostOnce ==
    /\ \A i, j \in 1 .. Len(signalled) : signalled[i] = signalled[j] => i = j
    /\ \A i \in 1 .. Len(signalled) : ~HasNotifier(tbl, signalled[i])
    /\ \A id \in Ids :
           LET r == connected(tbl, id)
           IN  IF HasNotifier(tbl, id)
               THEN /\ r.fired
                    /\ ~HasNotifier(r.tbl, id)
                    /\ connected(r.tbl, id) = [fired |-> FALSE, tbl |-> r.tbl]
               ELSE ~r.fired /\ r.tbl = tbl

\* A client read Connected(0) twice for the channel it allocated: the handler
\* of one has signalled the notifier, the handler of the other has yet to run.
C13_Witness ==
    /\ role = "client" /\ signalled = <<0>>
    /\ 0 \in DOMAIN tbl.connections
    /\ \E t \in tasks : t.kind = "connected" /\ t.ch = 0

\* The handlers of Close and Data frames that have not yet touched the table.
Unhandled == {t \in tasks : t.kind \in {"remove", "receive"} /\ t.pc = "start"}

\* C14: a Close(c) or Data(c, b) frame for a channel that has no table entry
\* changes nothing: reading it leaves the table and the queues as they are
\* and the dispatcher running, and the step of its handler leaves the table
\* (entries and next_id) and every data queue unchanged, ends the handler with
\* the payload handed to nobody, enqueues no message and leaves the dispatcher
\* and the driver as they were.
C14_UnknownChannelNoOp ==
    [][/\ (reading = "run" /\ nread' = nread + 1
                          /\ message'[1] \in {"Close", "Data"}) =>
              /\ tbl' = tbl /\ queues' = queues
              /\ reading' = "run" /\ main' = "run"
       /\ \A t \in Unhandled \ tasks' :
              t.ch \notin DOMAIN tbl.connections =>
                  /\ tbl' = tbl /\ queues' = queues
                  /\ tasks' = tasks \ {t}
                  /\ enqueued' = enqueued /\ messages' = messages
                  /\ reading' = reading /\ main' = main /\ ret' = ret
      ]_vars

\* A server whose table never had an entry has read two frames, the last a
\* Data for channel 0; their handlers have ended and the dispatcher goes on.
C14_Witness ==
    /\ role = "server" /\ nread = 2 /\ message[1] = "Data"
    /\ tbl = NewTable /\ queues = <<>> /\ tasks = {}
    /\ reading = "run" /\ main = "run"

\* C15: a channel's entry is removed from the table when the endpoint's bridge
\* for it observes EOF on its socket: no entry is left in the table whose
\* handler has ended (the handler that made an entry's data queue holds the
\* queue's receiver until it ends; while the entry is in the table the queue
\* is not closed, so the handler ends only by its socket's EOF).
C15_EntryGoneAfterEof ==
    \A c \in DOMAIN tbl.connections : Open(tbl.connections[c].data)

\* Whether a frame of the given kind for channel c comes before index j of s.
Before(s, j, kind, c) == \E i \in 1 .. (j - 1) : s[i][1] = kind /\ s[i][2] = c

\* In s, every Data and Close of a channel comes after the frame that opened
\* the channel on this side: Connect on the client, Connected on the server.
OpenedFirst(s) ==
    \A j \in 1 .. Len(s) :
        s[j][1] \in {"Data", "Close"} =>
            Before(s, j, IF role = "client" THEN "Connect" ELSE "Connected", s[j][2])

\* Whether a Connected handler signalled channel c's notifier.
Notified(c) == \E i \in 1 .. Len(signalled) : signalled[i] = c

\* C16: per channel, the client allocates the entry before it enqueues
\* Connect; the server enqueues Connected only from the handler of a Connect
\* it has read, after that handler added the entry; the client's bridge runs,
\* and so Data and Close are enqueued, only after a handler of Connected
\* signalled the notifier; so in the order of enqueueing and on the wire
\* Connect (client) and Connected (server) precede every Data and Close of the
\* channel.
C16_ChannelOrder ==
    /\ [](/\ OpenedFirst(enqueued) /\ OpenedFirst(wire)
          /\ \A j \in 1 .. Len(enqueued) :
                 enqueued[j][1] = "Connect" =>
                     \E i \in 1 .. Len(allocated) : allocated[i] = enqueued[j][2]
          /\ \A j \in 1 .. Len(enqueued) :
                 (role = "client" /\ enqueued[j][1] \in {"Data", "Close"}) =>
                     Notified(enqueued[j][2])
          /\ \A t \in tasks : (t.kind = "conn" /\ t.pc = "bridge") => Notified(t.ch))
    /\ [][/\ \A t \in tasks' :
                 (t.kind = "connect" /\ \A u \in tasks : u.id # t.id) =>
                     /\ nread' = nread + 1
                     /\ message' = <<"Connect", t.ch, t.port>>
                     /\ t.pc = "start"
          /\ (Len(enqueued') > Len(enqueued)
                 /\ enqueued'[Len(enqueued')][1] = "Connected") =>
                 \E t \in tasks :
                     /\ t.kind = "connect" /\ t.pc = "send"
                     /\ t.ch = enqueued'[Len(enqueued')][2]
                     /\ \E q \in t.data : q <= Len(queues)
          /\ \A t \in tasks' :
                 (t.kind = "connect" /\ t.pc = "send"
                     /\ \E u \in tasks : u.id = t.id /\ u.pc = "start") =>
                     /\ t.ch \in DOMAIN tbl'.connections
                     /\ t.data = {tbl'.connections[t.ch].data}
         ]_vars

\* A client whose wire carries Connect(0, 7), then Data(0) and Close(0) of its
\* bridge, which a Connected(0) from the server let start.
C16_Witness ==
    /\ role = "client" /\ Notified(0)
    /\ Len(wire) = 4
    /\ wire[2] = <<"Connect", 0, ThePort>>
    /\ wire[3][1] = "Data" /\ wire[3][2] = 0
    /\ wire[4] = <<"Close", 0>>

\* The handlers that end in this step.
Ended == {t \in tasks : \A u \in tasks' : u.id # t.id}

\* The handlers spawned in this step.
Spawned == {t \in tasks' : \A u \in tasks : u.id # t.id}

\* C17: when the server's dial for Connect(c, port) fails, the handler ends
\* having added no entry and enqueued nothing, and the server enqueues
\* Connected only from a handler whose dial succeeded and Close only from a
\* bridge; on the client, a handler waiting on its notifier stays waiting, out
\* of its bridge, and the channel's entry stays in the table, for as long as
\* no handler of a Connected or Close frame for the channel runs, and such
\* handlers are spawned only for frames read from the server.
C17_FailedDialIsSilent ==
    [][/\ \A t \in Ended :
              (t.kind = "connect" /\ t.pc = "start") =>
                  /\ tbl' = tbl /\ queues' = queues
                  /\ enqueued' = enqueued /\ messages' = messages
       /\ (role = "server" /\ Len(enqueued') > Len(enqueued)) =>
              LET m == enqueued'[Len(enqueued')]
              IN  \E t \in tasks :
                      /\ t.kind = "connect" /\ t.ch = m[2] /\ t.data # {}
                      /\ IF m[1] = "Connected" THEN t.pc = "send"
                         ELSE m[1] \in {"Data", "Close"} /\ t.pc = "bridge"
       /\ \A t \in tasks :
              (t.kind = "conn" /\ t.pc = "wait" /\ HasNotifier(tbl, t.ch)) =>
                  \/ t \in tasks' /\ HasNotifier(tbl', t.ch)
                  \/ \E h \in Ended :
                         h.kind \in {"connected", "remove"} /\ h.ch = t.ch
       /\ \A h \in Spawned :
              h.kind \in {"connected", "remove"} =>
                  /\ nread' = nread + 1
                  /\ message' = <<IF h.kind = "remove" THEN "Close" ELSE "Connected", h.ch>>
      ]_vars

\* A server read Connect(0, 7) and the dial failed: the handler has ended, the
\* table has no entry and nothing was enqueued.
C17_Witness ==
    /\ role = "server" /\ nread = 1 /\ message = <<"Connect", 0, ThePort>>
    /\ tasks = {} /\ tbl = NewTable /\ queues = <<>>
    /\ enqueued = <<>>

\* The Data handlers suspended in data.send(buf).await on a full queue.
Suspended ==
    {t \in tasks : /\ t.kind = "receive" /\ t.pc = "send"
                   /\ \E q \in t.data : Open(q) /\ Len(queues[q]) = DataCap}

\* C18: with channel 0's data queue full and its bridge not consuming, a
\* Data handler is suspended only on a full queue, and whatever handlers are
\* suspended, the dispatcher, while it runs and the transport has frames, can
\* read and dispatch any next frame, and every other handler can take its
\* step: Close handlers, lookups, sends to queues with room, and Connect
\* handlers.
C18_DispatcherNotBlocked ==
    /\ \A t \in tasks :
           (t.kind = "receive" /\ t.pc = "send" /\ t \notin Suspended) =>
               ENABLED ReceiveSend(t)
    /\ (main = "run" /\ reading = "run" /\ Events < MaxEvents) =>
           /\ \A c \in FullChannels : ENABLED ReadData(c) /\ ENABLED ReadClose(c)
           /\ ENABLED ReadConnect(1, ThePort)
    /\ \A t \in tasks :
           /\ t.kind = "remove" => ENABLED TaskRemove(t)
           /\ (t.kind = "receive" /\ t.pc = "start") => ENABLED ReceiveLookup(t)
           /\ (t.kind = "connect" /\ t.pc = "start") => ENABLED ConnectDial(t)

\* Channel 0's queue is full and a handler of Data(0) is suspended on it,
\* while frames read after that Data were handled: channel 1 was connected
\* and a payload of Data(1) placed on its queue.
C18_Witness ==
    /\ Len(queues) = 2
    /\ Len(queues[1]) = DataCap /\ queues[2] # <<>>
    /\ \E t \in Suspended : t.ch = 0 /\ t.buf < queues[2][1]

\* C19: no Data is lost to the Close that follows it: when the handler of a
\* Close(c) removes c's entry, no handler of a Data(c, b) that was read before
\* that Close, with c's entry in the table at the time, is still unfinished
\* (its payload not yet placed on the queue).
C19_DataBeforeClose ==
    [][\A h \in Ended :
           (h.kind = "remove" /\ h.ch \in DOMAIN tbl.connections) =>
               \A t \in tasks :
                   ~(/\ t.kind = "receive" /\ t.ch = h.ch /\ t.had
                     /\ t.id[2] < h.id[2])
      ]_vars

\* C20: once the dispatcher and the pump are started the driver never returns
\* Ok: the dispatcher never completes with Ok, the pump never completes with
\* Ok while the dispatcher holds its sender, and a driver that has returned
\* has returned an error.
C20_NeverOk ==
    /\ ret # "Ok" /\ reading # "Ok" /\ writing # "Ok"
    /\ main = "returned" =>
           ret \in ReadErrors \cup WriteErrors \cup {"Protocol", "ProtocolVersion"}
    /\ (main = "returned" /\ reading # "idle") =>
           reading \in ReadErrors \/ writing \in WriteErrors

\* A server whose dispatcher failed after it had read frames, the pump
\* waiting on the empty message queue: the driver returned the error.
C20_Witness ==
    /\ role = "server" /\ main = "returned" /\ ret \in ReadErrors
    /\ nread >= 2 /\ messages = <<>> /\ writing = "run"

====
